---- MODULE Spec2Model ----
(***************************************************************************)
(* Model of the sliding-window rate limiter and its middleware              *)
(* (src/src/core/middleware/rate_limit.py) and of the Redis cache           *)
(* (src/src/core/cache/redis_cache.py) over the shared Redis store.         *)
(*                                                                          *)
(* Time is counted in whole seconds; two calls that read the same value of  *)
(* `now` are two calls whose time.time() readings are equal.  A burst       *)
(* multiplier is carried as a number of halves (3 stands for 1.5), so that  *)
(* limit * burst_multiplier is exact, as it is in binary floating point.    *)
(***************************************************************************)
EXTENDS Integers, FiniteSets, Sequences, TLC

\* ---------------------------------------------------------------- bounds
MaxCalls == 3
MaxTicks == 2
MaxFaults == 1
MaxReqs == 1
MaxCount == 12
MaxLimit == 10
MaxParts == 2
MaxBaseTtl == 40
MaxStat == 2
MaxDays == 1
MaxSteps == 3

\* ------------------------------------------------------ program constants
BucketSeconds == 60
DefaultBurst == 3

Calls == 1..MaxCalls
Reqs == 1..MaxReqs
CallKeys == {"ip1"}
Keys == {"ip1", "user1", "ip1:ep"}
StartTime == BucketSeconds - 1
Buckets == (StartTime \div BucketSeconds)..((StartTime + MaxTicks) \div BucketSeconds)
RedisKeys == Keys \X Buckets
Limits == {1, 2}
Windows == {2, BucketSeconds}
MwWindows == {2}
Bursts == {DefaultBurst}
NoEntry == [pc |-> "idle"]
Callers == {"c1"}
Absent == [present |-> FALSE]
NoStats == [hits |-> 0, misses |-> 0]

VARIABLES
    now,          \* the clock time.time() reads
    settings,     \* settings.rate_limit_enabled, settings.cache_enabled
    cache,        \* RateLimiter.cache: "none" (None) or "redis"
    zsets,        \* Redis sorted sets: rate key -> set of scores (member = str(score))
    expiry,       \* Redis key expiration time of each rate key (0: no key)
    whitelist,    \* members of the Redis set rate_limit:whitelist
    wl_expiry,    \* expiration time of the key rate_limit:whitelist (0: none)
    params,       \* limit, window, burst_multiplier of the is_allowed calls
    calls,        \* the is_allowed calls: position, arguments, results
    probe,        \* one evaluation of the decision on given results[1] and arguments
    reqs,         \* the requests in RateLimitMiddleware.dispatch
    backend,      \* the Redis server: "up", or "down" (every command raises)
    redis_pool,   \* RedisCache._redis_pool: "none" (None) or "set"
    cache_instance, \* the module global _cache_instance is not None
    kv,           \* Redis string keys zep_api:*: the stored text and its expiration
    stats,        \* the Redis hash zep_api:stats:cache: hits, misses
    ops           \* the calls on the RedisCache: position, arguments, results

\* the state of the cache and of its connection
cvars == <<backend, redis_pool, cache_instance, kv, stats, ops>>

vars == <<now, settings, cache, zsets, expiry, whitelist, wl_expiry, params, calls, probe, reqs,
          backend, redis_pool, cache_instance, kv, stats, ops>>

\* ------------------------------------------------------- pure functions

Min(a, b) == IF a <= b THEN a ELSE b
Max(a, b) == IF a >= b THEN a ELSE b

\* int(x) of Python for x = n/d, d > 0: truncation toward zero.
IntTrunc(n, d) == IF n >= 0 THEN n \div d ELSE -((-n) \div d)

\* rate_limit.py:77  f"rate_limit:{key}:{int(current_time // 60)}"
rate_key(key, current_time) == <<key, current_time \div BucketSeconds>>

\* a rounding in place of int(): the threshold one too high on a half
effective_limit_rounded(limit, burst) == IntTrunc(limit * burst + 1, 2)

\* rate_limit.py:99  int(limit * burst_multiplier), burst in halves
effective_limit(limit, burst) == IntTrunc(limit * burst, 2)

\* current_count / limit <= num/den for limit # 0 (rate_limit.py:162-166)
RatioLe(count, limit, num, den) ==
    IF limit > 0 THEN den * count <= num * limit
                 ELSE den * count >= num * limit

\* the tiers with < in place of <=
calculate_retry_after_strict(current_count, limit, window) ==
    IF ~RatioLe(limit, current_count, 10, 12) /\ limit > 0 THEN Min(60, window \div 4)
    ELSE IF ~RatioLe(limit, current_count, 1, 2) /\ limit > 0 THEN Min(300, window \div 2)
    ELSE Min(900, window)

\* rate_limit.py:150-169
calculate_retry_after(current_count, limit, window) ==
    IF RatioLe(current_count, limit, 12, 10) THEN Min(60, window \div 4)
    ELSE IF RatioLe(current_count, limit, 2, 1) THEN Min(300, window \div 2)
    ELSE Min(900, window)

\* an except branch that fails closed
FailClosed(limit, window, t) ==
    [allowed |-> FALSE, limit |-> limit, remaining |-> 0,
     reset_time |-> t + window, retry_after |-> 60, error |-> TRUE]

\* rate_limit.py:139-148  the except branch: fail open
FailOpen(limit, window, t) ==
    [allowed |-> TRUE, limit |-> limit, remaining |-> limit,
     reset_time |-> t + window, error |-> TRUE]

\* rate_limit.py:96-137  the decision computed from results[1]
Decide(current_count, limit, window, burst, current_time) ==
    IF current_count > effective_limit(limit, burst)
    THEN IF limit = 0
         THEN FailOpen(limit, window, current_time)   \* ZeroDivisionError at line 162
         ELSE [allowed |-> FALSE, limit |-> limit, remaining |-> 0,
               reset_time |-> current_time + window,
               retry_after |-> calculate_retry_after(current_count, limit, window)]
    ELSE [allowed |-> TRUE, limit |-> limit,
          remaining |-> Max(0, limit - current_count),
          reset_time |-> current_time + window]

\* rate_limit.py:64-70
Disabled(limit, window, t) ==
    [allowed |-> TRUE, limit |-> limit, remaining |-> limit, reset_time |-> t + window]

\* ------------------------------------------------------- Redis commands

\* ZREMRANGEBYSCORE key lo hi
zremrangebyscore(z, lo, hi) == {e \in z : ~(lo <= e /\ e <= hi)}
\* ZCARD key
zcard(z) == Cardinality(z)
\* ZADD key {str(t): t}: a member that is already there is not added again
zadd(z, t) == z \cup {t}

\* rate_limit.py:83-95  the four queued commands, run by EXEC as one unit.
\* The value is the store after the batch and the batch's results[1].
PipelineExecute(rk, current_time, window) ==
    LET pruned == zremrangebyscore(zsets[rk], 0, current_time - window)
    IN  [zsets  |-> [zsets EXCEPT ![rk] = zadd(pruned, current_time)],
         expiry |-> [expiry EXCEPT ![rk] = now + window],
         count  |-> zcard(pruned)]

\* ------------------------------------------------- cache: pure functions

\* config.py:73  cache_ttl: int = 300
DefaultCacheTtl == 300

\* Python values handed to the cache.  A dict is the sequence of its
\* <<key, value>> items in insertion order.
PyStr(s) == [type |-> "str", s |-> s]
PyInt(n) == [type |-> "int", n |-> n]
PyNone == [type |-> "NoneType"]
PyList(items) == [type |-> "list", items |-> items]
PyDict(items) == [type |-> "dict", items |-> items]

\* str(x) for a str, an int, None
str(x) == CASE x.type = "str" -> x.s
            [] x.type = "int" -> ToString(x.n)
            [] OTHER -> "None"

\* sep.join(texts)
RECURSIVE join(_, _)
join(sep, texts) ==
    IF Len(texts) = 0 THEN ""
    ELSE IF Len(texts) = 1 THEN texts[1]
    ELSE texts[1] \o sep \o join(sep, Tail(texts))

\* hashlib.sha256(key_string.encode()).hexdigest()[:16], taken as free of
\* collisions: the digest of a string stands for that string and no other
sha256_hexdigest16(key_string) == <<"sha256", key_string>>

\* redis_cache.py:89-103  _generate_key: f"zep_api:{prefix}:{key_hash}", kept
\* as its three fields
generate_key(prefix, args) ==
    <<"zep_api", prefix,
      sha256_hexdigest16(join(":", [i \in 1..Len(args) |-> str(args[i])]))>>

\* json.dumps(x, ensure_ascii=False) for values whose strings need no
\* escaping; a dict key that is an int is written as its decimal string
RECURSIVE json_dumps(_)
json_dumps(x) ==
    CASE x.type = "str" -> "\"" \o x.s \o "\""
      [] x.type = "int" -> ToString(x.n)
      [] x.type = "NoneType" -> "null"
      [] x.type = "list" ->
            "[" \o join(", ", [i \in 1..Len(x.items) |-> json_dumps(x.items[i])]) \o "]"
      [] OTHER ->
            "{" \o join(", ", [i \in 1..Len(x.items) |->
                       "\"" \o str(x.items[i][1]) \o "\": " \o json_dumps(x.items[i][2])])
                \o "}"

\* The JSON documents json.loads can meet here, as the values it returns.
JsonValues ==
    {PyNone, PyInt(1), PyInt(123), PyStr("a"), PyStr("x"), PyStr("hello"),
     PyList(<<>>), PyList(<<PyInt(1), PyStr("a")>>),
     PyDict(<<>>), PyDict(<<<<PyStr("a"), PyInt(1)>>>>),
     PyDict(<<<<PyStr("1"), PyStr("x")>>>>)}

\* json.loads(data) succeeds: data is a JSON document
JSONDecodable(data) == \E x \in JsonValues : json_dumps(x) = data

\* redis_cache.py:105-122  _serialize_data
serialize_data(data) ==
    IF data.type \in {"dict", "list"} THEN json_dumps(data) ELSE str(data)

\* redis_cache.py:124-137  _deserialize_data: json.loads, and the text itself
\* on JSONDecodeError
deserialize_data(data) ==
    IF JSONDecodable(data)
    THEN CHOOSE x \in JsonValues : json_dumps(x) = data
    ELSE PyStr(data)

\* a 20 KB string of one repeated character, written by its length
BigText == "x*20000"
\* len(serialized_value)
len(text) == IF text = BigText THEN 20000 ELSE Len(text)

\* redis_cache.py:296-304  ttl_multipliers.get(prefix, 1.0), in tenths
ttl_multiplier(prefix) ==
    CASE prefix = "memory" -> 15
      [] prefix = "session" -> 20
      [] prefix = "user" -> 30
      [] prefix = "health" -> 1
      [] prefix = "metrics" -> 5
      [] OTHER -> 10

\* redis_cache.py:307-310  the size factor, in tenths
size_factor(data_size) ==
    IF data_size > 10000 THEN 7 ELSE IF data_size > 1000 THEN 9 ELSE 10

\* The (base_ttl, prefix) in -1..50 and at 300 for which the binary64 product
\* base_ttl * (multiplier * 0.7) lies just below the integer that the decimal
\* product is (0.7 is not a binary64 number: 300 * (0.1 * 0.7) is
\* 20.999999999999996).  No other product of the model's range, with factor
\* 1.0, 0.9 or 0.7, differs from the decimal one in its integer part.
Binary64Below ==
    {<<10, "user">>, <<20, "memory">>, <<20, "user">>, <<30, "user">>,
     <<40, "memory">>, <<40, "user">>, <<45, "session">>, <<50, "user">>,
     <<DefaultCacheTtl, "memory">>, <<DefaultCacheTtl, "user">>,
     <<DefaultCacheTtl, "health">>}

\* a size factor that grows with the payload
calculate_dynamic_ttl_grow(base_ttl, prefix, data_size) ==
    IntTrunc(base_ttl * ttl_multiplier(prefix)
                * (IF data_size > 10000 THEN 13 ELSE 10), 100)

\* redis_cache.py:282-312  _calculate_dynamic_ttl with base_ttl = settings.cache_ttl
calculate_dynamic_ttl(base_ttl, prefix, data_size) ==
    LET decimal == IntTrunc(base_ttl * ttl_multiplier(prefix) * size_factor(data_size), 100)
    IN  IF data_size > 10000 /\ <<base_ttl, prefix>> \in Binary64Below
        THEN decimal - 1
        ELSE decimal

\* the entries the cache calls of the model work on
CachePrefixes == {"memory", "health"}
CacheArgs == {<<PyStr("s1")>>}
CacheKeys == {generate_key(prefix, args) : prefix \in CachePrefixes, args \in CacheArgs}
CacheValues == {PyStr("hello"), PyStr("123"), PyDict(<<<<PyStr("a"), PyInt(1)>>>>),
                PyStr(BigText)}
\* the ttl argument of set: <<>> is None, <<n>> is the int n
TtlArgs == {<<>>, <<-1>>, <<0>>, <<2>>}
CacheTtls == {5, DefaultCacheTtl}
\* the globs "zep_api:*" and "zep_api:memory:*", as the fields before the *
Patterns == {<<"zep_api">>, <<"zep_api", "memory">>}
\* redis_cache.py:323  stats_key = "zep_api:stats:cache"
stats_key == <<"zep_api", "stats", "cache">>

\* ------------------------------------------------------------ actions

Init ==
    /\ now = StartTime
    /\ settings \in [rate_limit_enabled : BOOLEAN, cache_enabled : BOOLEAN]
    /\ cache = "none"
    /\ zsets = [rk \in RedisKeys |-> {}]
    /\ expiry = [rk \in RedisKeys |-> 0]
    /\ whitelist = {}
    /\ wl_expiry = 0
    /\ params \in [limit : Limits, window : Windows, burst : Bursts]
    /\ calls = [c \in Calls |-> NoEntry]
    /\ probe = NoEntry
    /\ reqs = [r \in Reqs |-> NoEntry]
    /\ backend = "up"
    /\ redis_pool = "none"
    /\ cache_instance = FALSE
    /\ kv = [k \in CacheKeys |-> Absent]
    /\ stats = NoStats
    /\ ops = [o \in Callers |-> NoEntry]

\* time passes; Redis drops the keys whose expiration is reached.  A dispatch
\* that holds its response (or its exception) leaves without another await,
\* so it has returned before the clock shows the next second.
Tick ==
    /\ now < StartTime + MaxTicks
    /\ \A r \in Reqs : reqs[r].pc \notin {"responded", "rejected", "error"}
    /\ now' = now + 1
    /\ zsets' = [rk \in RedisKeys |->
                    IF expiry[rk] # 0 /\ expiry[rk] <= now + 1 THEN {} ELSE zsets[rk]]
    /\ expiry' = [rk \in RedisKeys |->
                    IF expiry[rk] # 0 /\ expiry[rk] <= now + 1 THEN 0 ELSE expiry[rk]]
    /\ whitelist' = IF wl_expiry # 0 /\ wl_expiry <= now + 1 THEN {} ELSE whitelist
    /\ wl_expiry' = IF wl_expiry # 0 /\ wl_expiry <= now + 1 THEN 0 ELSE wl_expiry
    /\ UNCHANGED <<settings, cache, params, calls, probe, reqs>>
    /\ UNCHANGED cvars

\* redis_cache.py:409-420  get_cache_instance with its initialize (44-73) run
\* to the end: the first call builds the instance and the pool and pings the
\* server, CacheError when the ping fails; a later call returns the instance
\* as it is.
get_cache_instance_run ==
    [cache_instance |-> TRUE,
     redis_pool |-> IF cache_instance THEN redis_pool ELSE "set",
     raises |-> ~cache_instance /\ redis_pool = "none" /\ backend = "down"]

\* rate_limit.py:38-43  RateLimiter.initialize; an exception of
\* get_cache_instance leaves self.cache as it was
initialize ==
    /\ cache = "none"
    /\ settings.rate_limit_enabled /\ settings.cache_enabled
    /\ cache' = IF get_cache_instance_run.raises THEN cache ELSE "redis"
    /\ cache_instance' = get_cache_instance_run.cache_instance
    /\ redis_pool' = get_cache_instance_run.redis_pool
    /\ UNCHANGED <<now, settings, zsets, expiry, whitelist, wl_expiry, params, calls, probe, reqs>>
    /\ UNCHANGED <<backend, kv, stats, ops>>

\* tests/conftest.py:66  settings.rate_limit_enabled = False on the live settings object
disable_rate_limit ==
    /\ settings.rate_limit_enabled
    /\ settings' = [settings EXCEPT !.rate_limit_enabled = FALSE]
    /\ UNCHANGED <<now, cache, zsets, expiry, whitelist, wl_expiry, params, calls, probe, reqs>>
    /\ UNCHANGED cvars

\* rate_limit.py:194-217  add_to_whitelist(key, ttl): SADD, then EXPIRE of the
\* whole set when a ttl is given (None or 0: no EXPIRE).
add_to_whitelist(key, ttl) ==
    /\ cache = "redis"
    /\ whitelist' = whitelist \cup {key}
    /\ wl_expiry' = IF ttl # 0 THEN now + ttl ELSE wl_expiry
    /\ UNCHANGED <<now, settings, cache, zsets, expiry, params, calls, probe, reqs>>
    /\ UNCHANGED cvars

\* The calls on `key` whose batch the store has run.
Applied(key) == {d \in Calls : calls[d].pc = "done" /\ calls[d].key = key /\ calls[d].applied}

\* The calls whose pipe.execute() raised.
Faulted == {d \in Calls : calls[d].pc = "done" /\ calls[d].cmds > 0 /\ calls[d].raised}

\* is_allowed without its test of settings.rate_limit_enabled
rate_limit_off_unchecked == FALSE

\* rate_limit.py:64  if not settings.rate_limit_enabled
rate_limit_off == ~settings.rate_limit_enabled

\* rate_limit.py:64-80  is_allowed up to the await of pipe.execute():
\* the disabled return, the clock reading, the queued batch; self.cache None
\* raises at line 80 and is caught at line 139.
is_allowed_call(c, key) ==
    /\ calls[c].pc = "idle"
    /\ IF c = 1 THEN TRUE ELSE calls[c - 1].pc # "idle"
    /\ calls' = [calls EXCEPT ![c] =
         IF rate_limit_off
         THEN [pc |-> "done", key |-> key, t |-> now, applied |-> FALSE, cmds |-> 0,
               raised |-> FALSE, wl |-> key \in whitelist,
               result |-> Disabled(params.limit, params.window, now)]
         ELSE IF cache = "none"
         THEN [pc |-> "done", key |-> key, t |-> now, applied |-> FALSE, cmds |-> 0,
               raised |-> TRUE, wl |-> key \in whitelist,
               result |-> FailOpen(params.limit, params.window, now)]
         ELSE [pc |-> "queued", key |-> key, t |-> now, wl |-> key \in whitelist]]
    /\ UNCHANGED <<now, settings, cache, zsets, expiry, whitelist, wl_expiry, params, probe, reqs>>
    /\ UNCHANGED cvars

\* rate_limit.py:95-137  the store runs the batch and the call returns its decision.
\* nth and slide are history: the call's rank among the calls recorded for its
\* key, and the number of distinct timestamps recorded for its key so far that
\* lie after current_time - window.
is_allowed_execute(c) ==
    /\ calls[c].pc = "queued"
    /\ LET call == calls[c]
           out  == PipelineExecute(rate_key(call.key, call.t), call.t, params.window)
       IN  /\ zsets' = out.zsets
           /\ expiry' = out.expiry
           /\ calls' = [calls EXCEPT ![c] =
                [pc |-> "done", key |-> call.key, t |-> call.t, applied |-> TRUE,
                 cmds |-> 4, raised |-> FALSE, wl |-> call.wl,
                 count |-> out.count,
                 nth |-> Cardinality(Applied(call.key)) + 1,
                 slide |-> Cardinality({calls[d].t : d \in
                              {e \in Applied(call.key) : calls[e].t > call.t - params.window}}),
                 result |-> Decide(out.count, params.limit, params.window,
                                   params.burst, call.t)]]
    /\ UNCHANGED <<now, settings, cache, whitelist, wl_expiry, params, probe, reqs>>
    /\ UNCHANGED cvars

\* rate_limit.py:139-148  pipe.execute() raises: the connection fails before the
\* batch runs (applied = FALSE), or the reply is lost after it ran (applied = TRUE).
is_allowed_fault(c, applied) ==
    /\ calls[c].pc = "queued"
    /\ Cardinality(Faulted) < MaxFaults
    /\ LET call == calls[c]
           out  == PipelineExecute(rate_key(call.key, call.t), call.t, params.window)
       IN  /\ zsets' = IF applied THEN out.zsets ELSE zsets
           /\ expiry' = IF applied THEN out.expiry ELSE expiry
           /\ calls' = [calls EXCEPT ![c] =
                [pc |-> "done", key |-> call.key, t |-> call.t, applied |-> applied,
                 cmds |-> 4, raised |-> TRUE, wl |-> call.wl,
                 result |-> FailOpen(params.limit, params.window, now)]]
    /\ UNCHANGED <<now, settings, cache, whitelist, wl_expiry, params, probe, reqs>>
    /\ UNCHANGED cvars

\* Direct is_allowed calls on a store that may fail.
Next ==
    \/ Tick
    \/ initialize
    \/ disable_rate_limit
    \/ \E c \in Calls, key \in CallKeys : is_allowed_call(c, key)
    \/ \E c \in Calls : is_allowed_execute(c)
    \/ \E c \in Calls, applied \in BOOLEAN : is_allowed_fault(c, applied)

Spec == Init /\ [][Next]_vars

\* Direct is_allowed calls next to add_to_whitelist, on a healthy store.
WlKeys == {"ip1", "user1"}
WlTtls == {0, 1}

NextWl ==
    \/ Tick
    \/ initialize
    \/ \E key \in WlKeys, ttl \in WlTtls : add_to_whitelist(key, ttl)
    \/ \E c \in Calls, key \in CallKeys : is_allowed_call(c, key)
    \/ \E c \in Calls : is_allowed_execute(c)

SpecWl == Init /\ [][NextWl]_vars

\* The decision of lines 96-137 on given results[1], limit, window and burst.
ProbeLimits == (-1)..MaxLimit
ProbeWindows == {2, BucketSeconds, 3600}
ProbeBursts == 1..4

Probe ==
    /\ probe = NoEntry
    /\ \E count \in 0..MaxCount, limit \in ProbeLimits,
          window \in ProbeWindows, burst \in ProbeBursts :
          probe' = [pc |-> "done", count |-> count, limit |-> limit,
                    window |-> window, burst |-> burst,
                    effective_limit |-> effective_limit(limit, burst),
                    result |-> Decide(count, limit, window, burst, now)]
    /\ UNCHANGED <<now, settings, cache, zsets, expiry, whitelist, wl_expiry, params, calls, reqs>>
    /\ UNCHANGED cvars

SpecDecide == Init /\ [][Probe]_vars

\* --------------------------------------------------------- middleware

\* a command sent through self.cache.redis is answered: the pool exists
\* (redis_cache.py:82-87) and the server is reachable
RedisOk == redis_pool = "set" /\ backend = "up"

\* rate_limit.py:171-192  is_whitelisted: SISMEMBER; any exception (self.cache
\* None) gives False
is_whitelisted(key) == IF cache = "none" \/ ~RedisOk THEN FALSE ELSE key \in whitelist

\* rate_limit.py:45-148  one is_allowed(key, limit, window) with the default
\* burst_multiplier, its batch run at the time it reads: the decision and the
\* store after it.
is_allowed(key, limit, window) ==
    IF rate_limit_off
    THEN [result |-> Disabled(limit, window, now), zsets |-> zsets, expiry |-> expiry]
    ELSE IF cache = "none" \/ ~RedisOk
    THEN [result |-> FailOpen(limit, window, now), zsets |-> zsets, expiry |-> expiry]
    ELSE LET out == PipelineExecute(rate_key(key, now), now, window)
         IN  [result |-> Decide(out.count, limit, window, DefaultBurst, now),
              zsets |-> out.zsets, expiry |-> out.expiry]

\* rate_limit.py:294-308  rate_limit_checks of a request
rate_limit_checks(req) ==
    <<[check_type |-> "ip", key |-> req.ip, limit |-> settings.rate_limit_requests]>>
    \o (IF req.user # "none"
        THEN <<[check_type |-> "user", key |-> req.user,
                limit |-> settings.rate_limit_requests * 2]>>
        ELSE <<>>)
    \o (IF req.sensitive
        THEN <<[check_type |-> "endpoint", key |-> "ip1:ep",
                limit |-> settings.rate_limit_requests \div 2]>>
        ELSE <<>>)

\* rate_limit.py:311  the loop moves to the next check, or leaves for call_next
NextCheck(req) ==
    IF req.i < Len(rate_limit_checks(req))
    THEN [req EXCEPT !.pc = "check", !.i = req.i + 1]
    ELSE [req EXCEPT !.pc = "call_next"]

\* a loop that goes on after a rejection
BlockedIgnored(result) == FALSE

\* rate_limit.py:319  if not result["allowed"]
Blocked(result) == ~result.allowed

\* rate_limit.py:278-308  dispatch up to its first await after initialize
\* (lines 282-283 run before the test of the path at line 286); a CacheError
\* of initialize leaves dispatch as the request's failure
mw_dispatch(r, user, sensitive, health) ==
    /\ reqs[r].pc = "idle"
    /\ \A q \in 1..(r - 1) : reqs[q].pc # "idle"
    /\ LET init   == cache = "none" /\ settings.rate_limit_enabled /\ settings.cache_enabled
           raises == init /\ get_cache_instance_run.raises
       IN  /\ cache' = IF init /\ ~raises THEN "redis" ELSE cache
           /\ cache_instance' = IF init THEN get_cache_instance_run.cache_instance
                                        ELSE cache_instance
           /\ redis_pool' = IF init THEN get_cache_instance_run.redis_pool ELSE redis_pool
           /\ reqs' = [reqs EXCEPT ![r] =
                [pc |-> IF raises THEN "error" ELSE IF health THEN "call_next" ELSE "check",
                 i |-> 1,
                 ip |-> "ip1", user |-> user, sensitive |-> sensitive, health |-> health,
                 log |-> <<>>]]
    /\ UNCHANGED <<now, settings, zsets, expiry, whitelist, wl_expiry, params, calls, probe>>
    /\ UNCHANGED <<backend, kv, stats, ops>>

\* rate_limit.py:311-345  one turn of the loop: await is_whitelisted(key) and
\* continue, or await is_allowed(key, limit, window) and HTTPException on a
\* rejection.  The two awaits are one step: the lookup reads only the
\* whitelist set, self.cache and the connection, which no step of another
\* request changes once this request is past initialize.  The log keeps the
\* decision of the first check.
mw_check(r) ==
    /\ reqs[r].pc = "check"
    /\ LET req   == reqs[r]
           check == rate_limit_checks(req)[req.i]
           hit   == is_whitelisted(check.key)
           out   == is_allowed(check.key, check.limit, settings.rate_limit_window)
           seen  == [req EXCEPT !.log = Append(req.log,
                        [op |-> "is_whitelisted", check_type |-> check.check_type,
                         blocked |-> FALSE])]
           done  == [seen EXCEPT !.log = Append(seen.log,
                        [op |-> "is_allowed", check_type |-> check.check_type,
                         blocked |-> ~out.result.allowed]
                        @@ (IF req.i = 1 THEN [result |-> out.result] ELSE <<>>))]
       IN  IF hit
           THEN /\ reqs' = [reqs EXCEPT ![r] = NextCheck(seen)]
                /\ UNCHANGED <<zsets, expiry>>
           ELSE /\ zsets' = out.zsets
                /\ expiry' = out.expiry
                /\ reqs' = [reqs EXCEPT ![r] =
                     IF Blocked(out.result)
                     THEN [done EXCEPT !.pc = "rejected"] @@ [response |-> out.result]
                     ELSE NextCheck(done)]
    /\ UNCHANGED <<now, settings, cache, whitelist, wl_expiry, params, calls, probe>>
    /\ UNCHANGED cvars

\* rate_limit.py:287  a health path: await call_next(request) and return
\* rate_limit.py:348-359  await call_next(request), then a second is_allowed
\* on the first check fills the headers.  The handler touches none of this
\* state, so its run and the call after it are one step, taken any time later.
mw_call_next(r) ==
    /\ reqs[r].pc = "call_next"
    /\ LET req   == reqs[r]
           check == rate_limit_checks(req)[1]
           out   == is_allowed(check.key, check.limit, settings.rate_limit_window)
           seen  == [req EXCEPT !.pc = "responded", !.log = Append(req.log,
                        [op |-> "call_next", check_type |-> "none", blocked |-> FALSE])]
           hdrs  == [seen EXCEPT !.log = Append(seen.log,
                        [op |-> "headers", check_type |-> check.check_type,
                         blocked |-> ~out.result.allowed])]
       IN  IF req.health
           THEN /\ reqs' = [reqs EXCEPT ![r] = seen]
                /\ UNCHANGED <<zsets, expiry>>
           ELSE /\ zsets' = out.zsets
                /\ expiry' = out.expiry
                /\ reqs' = [reqs EXCEPT ![r] = hdrs @@ [response |-> out.result]]
    /\ UNCHANGED <<now, settings, cache, whitelist, wl_expiry, params, calls, probe>>
    /\ UNCHANGED cvars

\* The response (or the exception) leaves dispatch; the coroutine is gone,
\* and the requests still in flight keep their order of arrival.
mw_return(r) ==
    /\ reqs[r].pc \in {"responded", "rejected", "error"}
    /\ reqs' = [q \in Reqs |-> IF q < r THEN reqs[q]
                              ELSE IF q < MaxReqs THEN reqs[q + 1] ELSE NoEntry]
    /\ UNCHANGED <<now, settings, cache, zsets, expiry, whitelist, wl_expiry, params, calls, probe>>
    /\ UNCHANGED cvars

\* main.py:121-122 installs the middleware when rate limiting is enabled; the
\* whitelist set lives in the store and may hold keys when the process starts.
InitMw ==
    /\ now = StartTime
    /\ settings \in [rate_limit_enabled : {TRUE}, cache_enabled : BOOLEAN,
                     rate_limit_requests : Limits, rate_limit_window : MwWindows]
    /\ cache = "none"
    /\ zsets = [rk \in RedisKeys |-> {}]
    /\ expiry = [rk \in RedisKeys |-> 0]
    /\ whitelist \in SUBSET WlKeys
    /\ wl_expiry = 0
    /\ params = NoEntry
    /\ calls = [c \in Calls |-> NoEntry]
    /\ probe = NoEntry
    /\ reqs = [r \in Reqs |-> NoEntry]
    /\ backend \in {"up", "down"}
    /\ redis_pool = "none"
    /\ cache_instance = FALSE
    /\ kv = [k \in CacheKeys |-> Absent]
    /\ stats = NoStats
    /\ ops = [o \in Callers |-> NoEntry]

NextMw ==
    \/ Tick
    \/ \E r \in Reqs, user \in {"none", "user1"}, sensitive \in BOOLEAN : mw_dispatch(r, user, sensitive, FALSE)
    \/ \E r \in Reqs : mw_dispatch(r, "none", FALSE, TRUE)
    \/ \E r \in Reqs : mw_check(r)
    \/ \E r \in Reqs : mw_call_next(r)
    \/ \E r \in Reqs : mw_return(r)

SpecMw == InitMw /\ [][NextMw]_vars

\* A client calls is_allowed on one key, one call after the other, and after
\* a rejection may stay away for the retry_after seconds it was given.
RetryLimits == {1}
RetryWindows == {BucketSeconds}

\* rate_limit.py:45-148  one is_allowed(key, limit, window) call from its
\* clock reading to its return; the record keeps the call before it
retry_call(key) ==
    /\ LET out == is_allowed(key, params.limit, params.window)
       IN  /\ zsets' = out.zsets
           /\ expiry' = out.expiry
           /\ probe' = [pc |-> "done", op |-> "is_allowed", key |-> key, t |-> now,
                        result |-> out.result,
                        prev |-> IF probe = NoEntry THEN NoEntry
                                 ELSE [pc |-> "done", t |-> probe.t, result |-> probe.result]]
    /\ UNCHANGED <<now, settings, cache, whitelist, wl_expiry, params, calls, reqs>>
    /\ UNCHANGED cvars

\* d seconds pass with no call; Redis drops the keys whose expiration is reached
elapse(d) ==
    /\ now' = now + d
    /\ zsets' = [rk \in RedisKeys |->
                    IF expiry[rk] # 0 /\ expiry[rk] <= now + d THEN {} ELSE zsets[rk]]
    /\ expiry' = [rk \in RedisKeys |->
                    IF expiry[rk] # 0 /\ expiry[rk] <= now + d THEN 0 ELSE expiry[rk]]
    /\ UNCHANGED <<settings, cache, whitelist, wl_expiry, params, calls, probe, reqs>>
    /\ UNCHANGED cvars

\* the next second
retry_step ==
    /\ now < StartTime + MaxSteps
    /\ elapse(1)

\* rate_limit.py:118, 337-343  the rejected caller stays away until
\* retry_after seconds after the rejection (within the minutes of Buckets)
retry_wait ==
    /\ probe # NoEntry
    /\ ~probe.result.allowed
    /\ now < probe.t + probe.result.retry_after
    /\ rate_key(probe.key, probe.t + probe.result.retry_after)[2] \in Buckets
    /\ elapse(probe.t + probe.result.retry_after - now)

InitRetry ==
    /\ Init
    /\ settings.rate_limit_enabled /\ settings.cache_enabled
    /\ params.limit \in RetryLimits /\ params.window \in RetryWindows

NextRetry ==
    \/ initialize
    \/ \E key \in CallKeys : retry_call(key)
    \/ retry_step
    \/ retry_wait

SpecRetry == InitRetry /\ [][NextRetry]_vars

\* ------------------------------------------------------------ cache calls

\* a key that Redis still holds: written, and not past its expiration
Live(cache_key) == kv[cache_key].present /\ kv[cache_key].expires > now

\* SCAN MATCH pattern: the key begins with the fields of the glob
matches(pattern, key) == \A i \in 1..Len(pattern) : key[i] = pattern[i]

\* get, set and delete without their test of settings.cache_enabled
cache_off_unchecked == FALSE

\* redis_cache.py:150, 199, 236  if not settings.cache_enabled
cache_off == ~settings.cache_enabled

\* except branches that answer as if the call had succeeded
cache_except_ok(op) ==
    CASE op = "get" -> PyStr("")
      [] op = "clear_pattern" -> 1
      [] OTHER -> TRUE

\* redis_cache.py:176-178, 221-223, 252-254, 278-280  what the except branch
\* of get, set, delete, clear_pattern returns
cache_except(op) ==
    CASE op = "get" -> PyNone
      [] op = "clear_pattern" -> 0
      [] OTHER -> FALSE

\* tests/conftest.py:64, tests/test_cache.py:77  settings.cache_enabled is
\* assigned on the live settings object
set_cache_enabled(b) ==
    /\ settings.cache_enabled # b
    /\ settings' = [settings EXCEPT !.cache_enabled = b]
    /\ UNCHANGED <<now, cache, zsets, expiry, whitelist, wl_expiry, params, calls, probe, reqs>>
    /\ UNCHANGED cvars

\* the Redis server stops answering, and answers again
backend_fails ==
    /\ backend = "up"
    /\ backend' = "down"
    /\ UNCHANGED <<now, settings, cache, zsets, expiry, whitelist, wl_expiry, params, calls, probe, reqs>>
    /\ UNCHANGED <<redis_pool, cache_instance, kv, stats, ops>>

backend_recovers ==
    /\ backend = "down"
    /\ backend' = "up"
    /\ UNCHANGED <<now, settings, cache, zsets, expiry, whitelist, wl_expiry, params, calls, probe, reqs>>
    /\ UNCHANGED <<redis_pool, cache_instance, kv, stats, ops>>

\* redis_cache.py:44-62  RedisCache.initialize up to await ping(): nothing to do
\* when the pool exists; else from_url builds the pool (no connection is made
\* yet) and the ping is awaited
cache_initialize(o) ==
    /\ ops[o].pc = "idle"
    /\ redis_pool' = "set"
    /\ ops' = [ops EXCEPT ![o] =
         IF redis_pool = "set"
         THEN [pc |-> "done", op |-> "initialize", pinged |-> FALSE, raised |-> FALSE,
               down |-> backend = "down", invoked |-> TRUE]
         ELSE [pc |-> "ping", op |-> "initialize", invoked |-> TRUE]]
    /\ UNCHANGED <<now, settings, cache, zsets, expiry, whitelist, wl_expiry, params, calls, probe, reqs>>
    /\ UNCHANGED <<backend, cache_instance, kv, stats>>

\* get_cache_instance without its test of the global
instance_is_none_unchecked == TRUE

\* redis_cache.py:416  if _cache_instance is None
instance_is_none == ~cache_instance

\* redis_cache.py:409-420  get_cache_instance: when the global is None it is
\* assigned RedisCache() and initialize is awaited on it (`invoked`); the
\* global is assigned before the first await, and the call returns the global
get_cache_instance(o) ==
    /\ ops[o].pc = "idle"
    /\ cache_instance' = TRUE
    /\ redis_pool' = IF instance_is_none THEN "set" ELSE redis_pool
    /\ ops' = [ops EXCEPT ![o] =
         IF ~instance_is_none \/ redis_pool = "set"
         THEN [pc |-> "done", op |-> "get_cache_instance", pinged |-> FALSE,
               raised |-> FALSE, down |-> backend = "down",
               invoked |-> instance_is_none]
         ELSE [pc |-> "ping", op |-> "get_cache_instance", invoked |-> TRUE]]
    /\ UNCHANGED <<now, settings, cache, zsets, expiry, whitelist, wl_expiry, params, calls, probe, reqs>>
    /\ UNCHANGED <<backend, kv, stats>>

\* redis_cache.py:62-73  the ping returns, or fails and CacheError is raised
initialize_ping(o) ==
    /\ ops[o].pc = "ping"
    /\ ops' = [ops EXCEPT ![o] =
         [pc |-> "done", op |-> ops[o].op, pinged |-> TRUE,
          raised |-> backend = "down", down |-> backend = "down",
          invoked |-> TRUE]]
    /\ UNCHANGED <<now, settings, cache, zsets, expiry, whitelist, wl_expiry, params, calls, probe, reqs>>
    /\ UNCHANGED <<backend, redis_pool, cache_instance, kv, stats>>

\* redis_cache.py:150-155  get up to the reply of GET; an exception (no pool,
\* no answer) is caught at line 176
cache_get(o, prefix, args) ==
    /\ ops[o].pc = "idle"
    /\ stats.hits + stats.misses < MaxStat
    /\ LET cache_key == generate_key(prefix, args)
       IN  ops' = [ops EXCEPT ![o] =
             IF cache_off
             THEN [pc |-> "done", op |-> "get", key |-> cache_key, off |-> TRUE, cmds |-> 0,
                   fault |-> FALSE, stats_fault |-> FALSE, raised |-> FALSE,
                   hit |-> FALSE, result |-> PyNone]
             ELSE IF ~RedisOk
             THEN [pc |-> "done", op |-> "get", key |-> cache_key, off |-> FALSE,
                   cmds |-> IF redis_pool = "set" THEN 1 ELSE 0,
                   fault |-> TRUE, stats_fault |-> FALSE, raised |-> FALSE,
                   hit |-> FALSE, result |-> cache_except("get")]
             ELSE [pc |-> "stats", op |-> "get", key |-> cache_key,
                   hit |-> Live(cache_key),
                   cached_data |-> IF Live(cache_key) THEN kv[cache_key].data ELSE "",
                   value |-> IF Live(cache_key) THEN kv[cache_key].value ELSE PyNone]]
    /\ UNCHANGED <<now, settings, cache, zsets, expiry, whitelist, wl_expiry, params, calls, probe, reqs>>
    /\ UNCHANGED <<backend, redis_pool, cache_instance, kv, stats>>

\* an HINCRBY whose increment is lost
hincrby_lost(h, field, amount) == h

\* redis_cache.py:326, 328  HINCRBY stats_key field amount, one server command
hincrby(h, field, amount) == [h EXCEPT ![field] = @ + amount]

\* redis_cache.py:157-174, 314-335  _update_hit_stats (HINCRBY, EXPIRE; its
\* own exceptions are swallowed) and the return of get
cache_get_stats(o) ==
    /\ ops[o].pc = "stats"
    /\ LET call == ops[o]
       IN  /\ stats' = IF ~RedisOk THEN stats
                       ELSE IF call.hit THEN hincrby(stats, "hits", 1)
                       ELSE hincrby(stats, "misses", 1)
           /\ ops' = [ops EXCEPT ![o] =
                [pc |-> "done", op |-> "get", key |-> call.key, off |-> FALSE,
                 cmds |-> IF RedisOk THEN 3 ELSE 2,
                 fault |-> FALSE, stats_fault |-> ~RedisOk, raised |-> FALSE,
                 hit |-> call.hit, value |-> call.value,
                 result |-> IF call.hit THEN deserialize_data(call.cached_data) ELSE PyNone]]
    /\ UNCHANGED <<now, settings, cache, zsets, expiry, whitelist, wl_expiry, params, calls, probe, reqs>>
    /\ UNCHANGED <<backend, redis_pool, cache_instance, kv>>

\* redis_cache.py:199-223  set: SETEX cache_key cache_ttl serialized_value;
\* Redis refuses an expiration that is not positive, and that error is caught
\* like any other
cache_set(o, prefix, args, value, ttl) ==
    /\ ops[o].pc = "idle"
    /\ LET cache_key        == generate_key(prefix, args)
           serialized_value == serialize_data(value)
           cache_ttl        == IF ttl # <<>> /\ ttl[1] # 0
                               THEN ttl[1]
                               ELSE calculate_dynamic_ttl(settings.cache_ttl, prefix,
                                                          len(serialized_value))
           sent             == ~cache_off /\ RedisOk
           stored           == sent /\ cache_ttl > 0
       IN  /\ kv' = IF stored
                    THEN [kv EXCEPT ![cache_key] =
                            [present |-> TRUE, data |-> serialized_value,
                             expires |-> now + cache_ttl, ttl |-> cache_ttl,
                             value |-> value]]
                    ELSE kv
           /\ ops' = [ops EXCEPT ![o] =
                [pc |-> "done", op |-> "set", key |-> cache_key, off |-> cache_off,
                 cmds |-> IF cache_off \/ redis_pool = "none" THEN 0 ELSE 1,
                 fault |-> ~cache_off /\ ~RedisOk, raised |-> FALSE,
                 ttl_arg |-> ttl, ttl |-> cache_ttl,
                 result |-> IF cache_off THEN FALSE
                            ELSE IF stored THEN TRUE ELSE cache_except("set")]]
    /\ UNCHANGED <<now, settings, cache, zsets, expiry, whitelist, wl_expiry, params, calls, probe, reqs>>
    /\ UNCHANGED <<backend, redis_pool, cache_instance, stats>>

\* redis_cache.py:236-254  delete: DEL cache_key, bool(deleted)
cache_delete(o, prefix, args) ==
    /\ ops[o].pc = "idle"
    /\ LET cache_key == generate_key(prefix, args)
           sent      == ~cache_off /\ RedisOk
       IN  /\ kv' = IF sent THEN [kv EXCEPT ![cache_key] = Absent] ELSE kv
           /\ ops' = [ops EXCEPT ![o] =
                [pc |-> "done", op |-> "delete", key |-> cache_key, off |-> cache_off,
                 cmds |-> IF cache_off \/ redis_pool = "none" THEN 0 ELSE 1,
                 fault |-> ~cache_off /\ ~RedisOk, raised |-> FALSE,
                 result |-> IF cache_off THEN FALSE
                            ELSE IF sent THEN Live(cache_key) ELSE cache_except("delete")]]
    /\ UNCHANGED <<now, settings, cache, zsets, expiry, whitelist, wl_expiry, params, calls, probe, reqs>>
    /\ UNCHANGED <<backend, redis_pool, cache_instance, stats>>

\* redis_cache.py:256-280  clear_pattern: SCAN MATCH pattern, then one DEL of
\* the keys found (the statistics hash is one of the keys of zep_api:*);
\* settings.cache_enabled is not read
clear_pattern(o, pattern) ==
    /\ ops[o].pc = "idle"
    /\ LET keys       == {k \in CacheKeys : Live(k) /\ matches(pattern, k)}
           stats_found == stats # NoStats /\ matches(pattern, stats_key)
           deleted    == Cardinality(keys) + (IF stats_found THEN 1 ELSE 0)
       IN  /\ kv' = IF RedisOk THEN [k \in CacheKeys |-> IF k \in keys THEN Absent ELSE kv[k]]
                    ELSE kv
           /\ stats' = IF RedisOk /\ stats_found THEN NoStats ELSE stats
           /\ ops' = [ops EXCEPT ![o] =
                [pc |-> "done", op |-> "clear_pattern", pattern |-> pattern,
                 off |-> cache_off,
                 cmds |-> IF redis_pool = "none" THEN 0
                          ELSE IF RedisOk /\ deleted > 0 THEN 2 ELSE 1,
                 fault |-> ~RedisOk, raised |-> FALSE,
                 result |-> IF RedisOk THEN deleted ELSE cache_except("clear_pattern")]]
    /\ UNCHANGED <<now, settings, cache, zsets, expiry, whitelist, wl_expiry, params, calls, probe, reqs>>
    /\ UNCHANGED <<backend, redis_pool, cache_instance>>

\* the call has returned to its caller, who may call again
cache_return(o) ==
    /\ ops[o].pc = "done"
    /\ ops' = [ops EXCEPT ![o] = NoEntry]
    /\ UNCHANGED <<now, settings, cache, zsets, expiry, whitelist, wl_expiry, params, calls, probe, reqs>>
    /\ UNCHANGED <<backend, redis_pool, cache_instance, kv, stats>>

\* config.py:73-74  cache_enabled and cache_ttl as configured; the server may
\* be unreachable when the process starts
InitCache ==
    /\ now = StartTime
    /\ settings \in [rate_limit_enabled : {TRUE}, cache_enabled : BOOLEAN,
                     cache_ttl : CacheTtls]
    /\ cache = "none"
    /\ zsets = [rk \in RedisKeys |-> {}]
    /\ expiry = [rk \in RedisKeys |-> 0]
    /\ whitelist = {}
    /\ wl_expiry = 0
    /\ params = NoEntry
    /\ calls = [c \in Calls |-> NoEntry]
    /\ probe = NoEntry
    /\ reqs = [r \in Reqs |-> NoEntry]
    /\ backend \in {"up", "down"}
    /\ redis_pool = "none"
    /\ cache_instance = FALSE
    /\ kv = [k \in CacheKeys |-> Absent]
    /\ stats = NoStats
    /\ ops = [o \in Callers |-> NoEntry]

NextCache ==
    \/ \E b \in BOOLEAN : set_cache_enabled(b)
    \/ backend_fails
    \/ backend_recovers
    \/ \E o \in Callers : cache_initialize(o)
    \/ \E o \in Callers : get_cache_instance(o)
    \/ \E o \in Callers : initialize_ping(o)
    \/ \E o \in Callers, prefix \in CachePrefixes, args \in CacheArgs : cache_get(o, prefix, args)
    \/ \E o \in Callers : cache_get_stats(o)
    \/ \E o \in Callers, prefix \in CachePrefixes, args \in CacheArgs,
          value \in CacheValues, ttl \in TtlArgs : cache_set(o, prefix, args, value, ttl)
    \/ \E o \in Callers, prefix \in CachePrefixes, args \in CacheArgs : cache_delete(o, prefix, args)
    \/ \E o \in Callers, pattern \in Patterns : clear_pattern(o, pattern)
    \/ \E o \in Callers : cache_return(o)

SpecCache == InitCache /\ [][NextCache]_vars

\* The cache calls while the server cannot be reached at any time.
InitDown == InitCache /\ backend = "down"

NextDown ==
    \/ \E b \in BOOLEAN : set_cache_enabled(b)
    \/ \E o \in Callers : cache_initialize(o)
    \/ \E o \in Callers : get_cache_instance(o)
    \/ \E o \in Callers : initialize_ping(o)
    \/ \E o \in Callers, prefix \in CachePrefixes, args \in CacheArgs : cache_get(o, prefix, args)
    \/ \E o \in Callers, prefix \in CachePrefixes, args \in CacheArgs,
          value \in CacheValues, ttl \in TtlArgs : cache_set(o, prefix, args, value, ttl)
    \/ \E o \in Callers, prefix \in CachePrefixes, args \in CacheArgs : cache_delete(o, prefix, args)
    \/ \E o \in Callers, pattern \in Patterns : clear_pattern(o, pattern)
    \/ \E o \in Callers : cache_return(o)

SpecDown == InitDown /\ [][NextDown]_vars

\* Two callers of one process use the cache at the same time: their calls
\* interleave at every await. Caching is enabled; the server may stop
\* answering and answer again.
Clients == {"c1", "c2"}
ConcValues == {PyStr("hello")}
StatsTtl == 86400

\* redis_cache.py:344-370  get_cache_stats: HGETALL of the statistics hash,
\* hits and misses default to 0, total = hits + misses; the SCAN and INFO that
\* follow only read; any exception gives {"error": ...}
get_cache_stats(o) ==
    /\ ops[o].pc = "idle"
    /\ ops' = [ops EXCEPT ![o] =
         [pc |-> "done", op |-> "get_cache_stats", fault |-> ~RedisOk, raised |-> FALSE,
          result |-> IF RedisOk
                     THEN [hits |-> stats.hits, misses |-> stats.misses,
                           total_requests |-> stats.hits + stats.misses]
                     ELSE [error |-> TRUE]]]
    /\ UNCHANGED <<now, settings, cache, zsets, expiry, whitelist, wl_expiry, params, calls, probe, reqs>>
    /\ UNCHANGED <<backend, redis_pool, cache_instance, kv, stats>>

\* redis_cache.py:331  EXPIRE stats_key 86400: a day goes by with no get, and
\* Redis drops the statistics hash (and every entry, whose TTL is shorter)
day_passes ==
    /\ now < StartTime + MaxDays * StatsTtl
    /\ now' = now + StatsTtl
    /\ stats' = NoStats
    /\ UNCHANGED <<settings, cache, zsets, expiry, whitelist, wl_expiry, params, calls, probe, reqs>>
    /\ UNCHANGED <<backend, redis_pool, cache_instance, kv, ops>>

InitConc ==
    /\ now = StartTime
    /\ settings = [rate_limit_enabled |-> TRUE, cache_enabled |-> TRUE,
                   cache_ttl |-> DefaultCacheTtl]
    /\ cache = "none"
    /\ zsets = [rk \in RedisKeys |-> {}]
    /\ expiry = [rk \in RedisKeys |-> 0]
    /\ whitelist = {}
    /\ wl_expiry = 0
    /\ params = NoEntry
    /\ calls = [c \in Calls |-> NoEntry]
    /\ probe = NoEntry
    /\ reqs = [r \in Reqs |-> NoEntry]
    /\ backend = "up"
    /\ redis_pool = "none"
    /\ cache_instance = FALSE
    /\ kv = [k \in CacheKeys |-> Absent]
    /\ stats = NoStats
    /\ ops = [o \in Clients |-> NoEntry]

NextConc ==
    \/ \E o \in Clients : get_cache_instance(o)
    \/ \E o \in Clients : initialize_ping(o)
    \/ \E o \in Clients, prefix \in CachePrefixes, args \in CacheArgs : cache_get(o, prefix, args)
    \/ \E o \in Clients : cache_get_stats(o)
    \/ \E o \in Clients, prefix \in CachePrefixes, args \in CacheArgs, value \in ConcValues :
          cache_set(o, prefix, args, value, <<>>)
    \/ \E o \in Clients, pattern \in Patterns : clear_pattern(o, pattern)
    \/ \E o \in Clients : get_cache_stats(o)
    \/ \E o \in Clients : cache_return(o)
    \/ day_passes
    \/ backend_fails
    \/ backend_recovers

SpecConc == InitConc /\ [][NextConc]_vars

\* Key derivation, serialization and the dynamic TTL on given arguments.
Parts == {PyStr("a"), PyStr("b"), PyStr("c"), PyStr("a:b"), PyStr("1"), PyInt(1)}
PartLists == UNION {[1..n -> Parts] : n \in 0..MaxParts}
BaseTtls == (-1)..MaxBaseTtl \cup {DefaultCacheTtl}
TtlPrefixes == {"memory", "session", "user", "health", "metrics", "graph"}
DataSizes == {100, 1000, 1001, 10000, 10001, 20000}
RoundTripValues ==
    CacheValues \cup
    {PyStr("null"), PyStr("simple string"), PyStr("{\"a\": 1}"),
     PyList(<<PyInt(1), PyStr("a")>>), PyList(<<>>), PyDict(<<>>),
     PyDict(<<<<PyInt(1), PyStr("x")>>>>)}

ProbeKey ==
    /\ probe = NoEntry
    /\ \E prefix \in CachePrefixes, a \in PartLists, b \in PartLists :
          probe' = [pc |-> "done", op |-> "generate_key", prefix |-> prefix,
                    args1 |-> a, args2 |-> b,
                    key1 |-> generate_key(prefix, a), key2 |-> generate_key(prefix, b)]
    /\ UNCHANGED <<now, settings, cache, zsets, expiry, whitelist, wl_expiry, params, calls, reqs>>
    /\ UNCHANGED cvars

ProbeTtl ==
    /\ probe = NoEntry
    /\ \E base_ttl \in BaseTtls, prefix \in TtlPrefixes, data_size \in DataSizes :
          probe' = [pc |-> "done", op |-> "calculate_dynamic_ttl", base_ttl |-> base_ttl,
                    prefix |-> prefix, data_size |-> data_size,
                    ttl |-> calculate_dynamic_ttl(base_ttl, prefix, data_size),
                    ttl_100 |-> calculate_dynamic_ttl(base_ttl, prefix, 100),
                    ttl_20k |-> calculate_dynamic_ttl(base_ttl, prefix, 20000)]
    /\ UNCHANGED <<now, settings, cache, zsets, expiry, whitelist, wl_expiry, params, calls, reqs>>
    /\ UNCHANGED cvars

ProbeRoundTrip ==
    /\ probe = NoEntry
    /\ \E value \in RoundTripValues :
          probe' = [pc |-> "done", op |-> "round_trip", value |-> value,
                    serialized |-> serialize_data(value),
                    result |-> deserialize_data(serialize_data(value))]
    /\ UNCHANGED <<now, settings, cache, zsets, expiry, whitelist, wl_expiry, params, calls, reqs>>
    /\ UNCHANGED cvars

NextPure == ProbeKey \/ ProbeTtl \/ ProbeRoundTrip

InitPure ==
    /\ InitCache
    /\ backend = "up"
    /\ settings.cache_enabled
    /\ settings.cache_ttl = DefaultCacheTtl

SpecPure == InitPure /\ [][NextPure]_vars

\* ------------------------------------------------------------- claims

Started == {c \in Calls : calls[c].pc # "idle"}
Finished == {c \in Calls : calls[c].pc = "done"}
\* the calls that returned a decision computed from the batch's results
Counted == {c \in Finished : calls[c].applied /\ ~calls[c].raised}
NoFault == \A c \in Finished : ~calls[c].raised
\* every call so far, and the present, lie within one window of each other
OneWindow ==
    \A c \in Started : /\ now - calls[c].t < params.window
                       /\ \A d \in Started : calls[c].t - calls[d].t < params.window
\* floor(limit x burst_multiplier) for limit >= 0, written without the code's int()
FloorOf(limit, burst) == CHOOSE e \in 0..(2 * MaxLimit) :
                             2 * e <= limit * burst /\ limit * burst < 2 * (e + 1)
\* the events the store holds for an identity key, over all its minute keys
Recorded(key) == UNION {zsets[<<key, b>>] : b \in Buckets}

\* C1: for a fresh key and calls that all fall within one window (healthy
\* store), the k-th call is allowed for every k <= floor(limit x burst) and
\* call number floor(limit x burst) + 1 is rejected.
C1_AdmissionBoundary ==
    (NoFault /\ OneWindow) =>
        \A c \in Counted :
            LET eff == FloorOf(params.limit, params.burst)
            IN  /\ calls[c].nth <= eff => calls[c].result.allowed
                /\ calls[c].nth = eff + 1 => ~calls[c].result.allowed

\* C2: N is_allowed calls for the same fresh key, in any interleaving and at
\* any call times, leave exactly N events recorded for the key.
C2_NoLostUpdates ==
    (NoFault /\ OneWindow /\ Started = Finished) =>
        \A key \in CallKeys :
            Cardinality(Recorded(key)) = Cardinality({c \in Counted : calls[c].key = key})

\* C3: no two is_allowed calls on one key observe the same pre-increment
\* count (all calls within one window, so that nothing was pruned in between).
C3_DistinctObservedCounts ==
    (NoFault /\ OneWindow) =>
        \A c, d \in Counted :
            (c # d /\ calls[c].key = calls[d].key) => calls[c].count # calls[d].count

\* C4: the count is_allowed compares with the threshold is the number of
\* events recorded for the key whose timestamp lies within the last `window`
\* seconds before the call.
C4_SlidingCount ==
    NoFault => \A c \in Counted : calls[c].count = calls[c].slide

\* C5: for a key that is in the whitelist set when is_allowed is called, the
\* call returns allowed = true whatever was recorded for the key before.
C5_WhitelistBypass ==
    \A c \in Finished : calls[c].wl => calls[c].result.allowed

\* C6: whenever the backend raises during a rate check, is_allowed returns a
\* decision with allowed = true that carries the error.
C6_FailOpen ==
    \A c \in Finished :
        calls[c].raised => (calls[c].result.allowed /\ "error" \in DOMAIN calls[c].result)

C6_Witness ==
    \E c \in Finished : calls[c].raised /\ calls[c].cmds > 0 /\ calls[c].applied
                        /\ Cardinality(Recorded(calls[c].key)) > params.limit + 1

\* C7: a call made while rate_limit_enabled is false returns at once with
\* allowed = true and no error, has queued no backend command, and the step
\* leaves the windows and the whitelist as they were.
C7_DisabledNoBackend ==
    [][\A c \in Calls :
          (~settings.rate_limit_enabled /\ calls[c].pc = "idle" /\ calls'[c].pc # "idle")
          => /\ calls'[c].pc = "done"
             /\ calls'[c].cmds = 0
             /\ calls'[c].result.allowed
             /\ "error" \notin DOMAIN calls'[c].result
             /\ UNCHANGED <<zsets, expiry, whitelist, wl_expiry>>]_vars

C7_Witness ==
    \E c \in Finished : /\ ~settings.rate_limit_enabled /\ cache = "redis"
                        /\ calls[c].cmds = 0 /\ ~calls[c].raised
                        /\ Recorded(calls[c].key) # {}

\* C8: on a rejection retry_after follows the ratio count/limit:
\* <= 1.2 gives min(60, window/4), <= 2.0 gives min(300, window/2), any larger
\* ratio gives min(900, window) (window/4 and window/2 in whole seconds).
C8_RetryAfterTiers ==
    (probe # NoEntry /\ ~probe.result.allowed) =>
        LET n == probe.count
            l == probe.limit
            w == probe.window
            r == probe.result.retry_after
        IN  /\ l # 0
            /\ (l < 0 \/ 10 * n <= 12 * l) => r = Min(60, w \div 4)
            /\ (l > 0 /\ 10 * n > 12 * l /\ n <= 2 * l) => r = Min(300, w \div 2)
            /\ (l > 0 /\ n > 2 * l) => r = Min(900, w)
            /\ r <= 900
            /\ (l > 0 /\ 10 * n <= 11 * l) => r <= 60
            /\ (l > 0 /\ 10 * n <= 15 * l) => r <= 300

C8_Witness ==
    /\ probe # NoEntry /\ ~probe.result.allowed
    /\ probe.limit = 5 /\ probe.count = 6 /\ probe.window = 3600
    /\ probe.result.retry_after = 60

\* C9 as stated: the threshold is floor(limit x burst_multiplier) and >= limit
\* for every limit and burst_multiplier.
C9_EffectiveAtLeastLimit ==
    probe # NoEntry =>
        /\ probe.effective_limit >= probe.limit
        /\ 2 * probe.effective_limit <= probe.limit * probe.burst
        /\ probe.limit * probe.burst < 2 * (probe.effective_limit + 1)

\* C9 amended: for limit >= 0 and burst_multiplier >= 1 the threshold is
\* floor(limit x burst_multiplier), it is >= limit, and it is the threshold
\* the decision uses.
C9_EffectiveForBurstAtLeastOne ==
    (probe # NoEntry /\ probe.limit >= 0 /\ probe.burst >= 2) =>
        /\ probe.effective_limit >= probe.limit
        /\ 2 * probe.effective_limit <= probe.limit * probe.burst
        /\ probe.limit * probe.burst < 2 * (probe.effective_limit + 1)
        /\ 2 * probe.count <= probe.limit * probe.burst
              => (probe.result.allowed /\ "error" \notin DOMAIN probe.result)
        /\ (2 * probe.count > probe.limit * probe.burst /\ probe.limit > 0)
              => ~probe.result.allowed

C9_Witness ==
    /\ probe # NoEntry /\ probe.limit = 3 /\ probe.burst = DefaultBurst
    /\ probe.effective_limit = 4 /\ probe.count = 5 /\ ~probe.result.allowed

Arrived == {r \in Reqs : reqs[r].pc # "idle"}
Rank(check_type) == CASE check_type = "ip" -> 1 [] check_type = "user" -> 2
                      [] check_type = "endpoint" -> 3 [] OTHER -> 4
\* the evaluations of a request's ordered checks, those before call_next
ChecksOf(log) == SelectSeq(log, LAMBDA e : e.op \in {"is_whitelisted", "is_allowed"})

\* C10: the checks of a request run in the order address, subject, endpoint
\* (for each the whitelist lookup, then is_allowed); a rejection is the last
\* thing evaluated for the request, and a rejected request is never dispatched.
C10_OrderedShortCircuit ==
    \A r \in Arrived :
        LET log == reqs[r].log
            chk == ChecksOf(log)
        IN  /\ \A i, j \in 1..Len(chk) :
                  i < j => \/ Rank(chk[i].check_type) < Rank(chk[j].check_type)
                           \/ /\ chk[i].check_type = chk[j].check_type
                              /\ j = i + 1
                              /\ chk[i].op = "is_whitelisted" /\ chk[j].op = "is_allowed"
            /\ \A i \in 1..Len(chk) : log[i] = chk[i]
            /\ \A i \in 1..Len(chk) :
                  chk[i].blocked => (i = Len(log) /\ reqs[r].pc = "rejected")
            /\ reqs[r].pc = "rejected" =>
                  (\A i \in 1..Len(log) : log[i].op # "call_next") /\ log[Len(log)].blocked
            /\ (\E i \in 1..Len(log) : log[i].op = "call_next") =>
                  \/ reqs[r].health /\ Len(chk) = 0
                  \/ Len(chk) >= 1 /\ chk[Len(chk)].check_type
                        = rate_limit_checks(reqs[r])[Len(rate_limit_checks(reqs[r]))].check_type

\* a request rejected on its address check while its subject and endpoint
\* checks were still to come
C10_Witness ==
    \E r \in Arrived :
        /\ reqs[r].pc = "rejected" /\ reqs[r].user # "none" /\ reqs[r].sensitive
        /\ Len(reqs[r].log) = 2 /\ reqs[r].log[2].check_type = "ip"

\* C11: a request on a /health path is always handed to call_next, with no
\* whitelist lookup and no rate check, whatever the settings and the state of
\* the store.
C11_HealthBypass ==
    \A r \in Arrived :
        reqs[r].health =>
            /\ reqs[r].pc \in {"call_next", "responded"}
            /\ \A i \in 1..Len(reqs[r].log) : reqs[r].log[i].op = "call_next"

\* C12: the headers of an admitted request carry limit, remaining and
\* reset_time of the decision its address check produced in the ordered checks.
C12_HeadersFromFirstCheck ==
    \A r \in Arrived :
        (reqs[r].pc = "responded" /\ ~reqs[r].health) =>
            \E i \in 1..Len(reqs[r].log) :
                /\ reqs[r].log[i].op = "is_allowed"
                /\ reqs[r].log[i].check_type = "ip"
                /\ reqs[r].response.limit = reqs[r].log[i].result.limit
                /\ reqs[r].response.remaining = reqs[r].log[i].result.remaining
                /\ reqs[r].response.reset_time = reqs[r].log[i].result.reset_time

\* C13: no step of a request adds an event to, or otherwise changes, the
\* window of an identity that is whitelisted (Redis alone may drop the key
\* when it expires).
C13_WhitelistedWindowUntouched ==
    [][\A key \in whitelist : \A b \in Buckets :
          /\ zsets'[<<key, b>>] \subseteq zsets[<<key, b>>]
          /\ expiry'[<<key, b>>] \in {expiry[<<key, b>>], 0}]_vars

\* the finished cache calls of an operation
DoneOps(op) == {o \in Callers : ops[o].pc = "done" /\ ops[o].op = op}
DoneCacheOps == DoneOps("get") \cup DoneOps("set") \cup DoneOps("delete")
                \cup DoneOps("clear_pattern")

\* C14 as stated: whenever the backend raises during get, set, delete or
\* clear_pattern with caching enabled, the call does not raise and returns
\* nothing / false / false / 0.
C14_AnyFaultGivesNothing ==
    \A o \in DoneCacheOps :
        (~ops[o].off /\ (ops[o].fault \/ (ops[o].op = "get" /\ ops[o].stats_fault))) =>
            /\ ~ops[o].raised
            /\ ops[o].result = cache_except(ops[o].op)

\* C14 amended: no cache call raises; when the call's own command fails (GET,
\* SETEX, DEL, SCAN/DEL) or the pool was never built, get returns nothing, set
\* false, delete false and clear_pattern 0; when only the hit/miss update of a
\* get fails, get returns what it fetched.
C14_FailSoft ==
    \A o \in DoneCacheOps :
        /\ ~ops[o].raised
        /\ (~ops[o].off /\ ops[o].fault) =>
              ops[o].result = (CASE ops[o].op = "get" -> PyNone
                                 [] ops[o].op = "clear_pattern" -> 0
                                 [] OTHER -> FALSE)
        /\ (ops[o].op = "get" /\ ops[o].stats_fault) =>
              ops[o].result = (IF ops[o].hit THEN deserialize_data(serialize_data(ops[o].value))
                                             ELSE PyNone)

\* a get that fails on the server while the entry it asks for is stored
C14_Witness ==
    \E o \in DoneOps("get") :
        /\ ops[o].fault /\ ops[o].cmds = 1 /\ ~ops[o].off
        /\ kv[ops[o].key].present /\ ops[o].result = PyNone

\* C15: every call of RedisCache.initialize or get_cache_instance made while
\* the server cannot be reached raises CacheError, the first and every later one.
C15_InitFailureRaised ==
    \A o \in DoneOps("initialize") \cup DoneOps("get_cache_instance") : ops[o].raised

\* C16: with cache_enabled false a get, set or delete returns at once with
\* nothing / false / false, has sent no command, and the step leaves the
\* stored entries and the hit/miss counters as they were.
C16_DisabledNoBackend ==
    [][\A o \in Callers :
          (/\ ~settings.cache_enabled
           /\ ops[o].pc = "idle" /\ ops'[o].pc # "idle"
           /\ ops'[o].op \in {"get", "set", "delete"})
          => /\ ops'[o].pc = "done"
             /\ ops'[o].cmds = 0
             /\ ~ops'[o].raised
             /\ ops'[o].result = (IF ops'[o].op = "get" THEN PyNone ELSE FALSE)
             /\ UNCHANGED <<kv, stats>>]_vars

\* a get with caching disabled on a reachable server that holds the entry
C16_Witness ==
    \E o \in DoneOps("get") :
        /\ ops[o].off /\ ops[o].cmds = 0 /\ ops[o].result = PyNone
        /\ RedisOk /\ Live(ops[o].key)

\* C17: with cache_enabled false clear_pattern sends no command, removes no
\* key and returns 0.
C17_DisabledClearPattern ==
    [][\A o \in Callers :
          (/\ ~settings.cache_enabled
           /\ ops[o].pc = "idle" /\ ops'[o].pc # "idle"
           /\ ops'[o].op = "clear_pattern")
          => /\ ops'[o].cmds = 0
             /\ ops'[o].result = 0
             /\ UNCHANGED <<kv, stats>>]_vars

\* C18: a get that finds the entry a set wrote (caching enabled, healthy
\* backend) returns a value equal to the value that was set.
C18_RoundTrip ==
    \A o \in DoneOps("get") :
        (ops[o].hit /\ ~ops[o].stats_fault) => ops[o].result = ops[o].value

\* C19: for one category two derivations give the same key if and only if
\* their ordered lists of parts are identical.
C19_KeyDistinctness ==
    (probe # NoEntry /\ probe.op = "generate_key") =>
        ((probe.key1 = probe.key2) <=> (probe.args1 = probe.args2))

\* C20 as stated: for every category and every base TTL the dynamic TTL of a
\* 20 KB payload is strictly smaller than that of a 100-byte payload.
C20_TtlStrictlySmaller ==
    (probe # NoEntry /\ probe.op = "calculate_dynamic_ttl") =>
        probe.ttl_20k < probe.ttl_100

\* C20 amended: for every category and every base TTL of at least 30 seconds
\* (the default 300 included) the dynamic TTL of a 20 KB payload is strictly
\* smaller than that of a 100-byte payload; for any base TTL >= 0 it is not
\* larger.
C20_TtlSmallerFromThirty ==
    (probe # NoEntry /\ probe.op = "calculate_dynamic_ttl") =>
        /\ probe.base_ttl >= 30 => probe.ttl_20k < probe.ttl_100
        /\ probe.base_ttl >= 0 => probe.ttl_20k <= probe.ttl_100

C20_Witness ==
    /\ probe # NoEntry /\ probe.op = "calculate_dynamic_ttl"
    /\ probe.base_ttl = DefaultCacheTtl /\ probe.prefix = "health"
    /\ probe.ttl_20k = 20 /\ probe.ttl_100 = 30

\* the finished set calls that sent their SETEX to a server that answered
SentSets == {o \in DoneOps("set") : ~ops[o].off /\ ~ops[o].fault}

\* C21: every expiration that set passes to the store is >= 0, whether it
\* comes from the caller's ttl argument or from the dynamic policy.
C21_TtlNonNegative ==
    \A o \in SentSets : ops[o].ttl >= 0

\* C22: whenever set is called with an explicit ttl argument, that argument is
\* the expiration of the SETEX; the dynamic policy is used only when no ttl is
\* given.
C22_ExplicitTtlOverride ==
    \A o \in SentSets :
        ops[o].ttl_arg # <<>> => ops[o].ttl = ops[o].ttl_arg[1]

\* the finished calls of an operation, by any caller
DoneBy(op) == {o \in DOMAIN ops : ops[o].pc = "done" /\ ops[o].op = op}
\* this step is the return of a get that fetched from a healthy server
GetCompletes(o) == ops[o].pc = "stats" /\ ops'[o].pc = "done" /\ RedisOk
\* this step is a get_cache_stats call that the server answered
StatsReported(o) ==
    /\ ops[o].pc = "idle" /\ ops'[o].pc = "done"
    /\ ops'[o].op = "get_cache_stats" /\ ~ops'[o].fault
\* every completed get adds one to exactly one counter, and stats reports
\* the counters and their sum
OneCounterPerGet ==
    /\ \A o \in DOMAIN ops :
          GetCompletes(o) =>
              /\ stats'.hits = stats.hits + (IF ops[o].hit THEN 1 ELSE 0)
              /\ stats'.misses = stats.misses + (IF ops[o].hit THEN 0 ELSE 1)
    /\ \A o \in DOMAIN ops :
          StatsReported(o) =>
              /\ ops'[o].result.hits = stats.hits
              /\ ops'[o].result.misses = stats.misses
              /\ ops'[o].result.total_requests = stats.hits + stats.misses

\* C23 as stated: each completed get (caching enabled, healthy backend, also
\* with gets in flight together) adds one to exactly one counter, nothing else
\* changes the counters, so hits + misses is the number of completed gets
\* after any sequence of operations, and stats reports total = hits + misses.
C23_CountersEqualCompletedGets ==
    [][/\ OneCounterPerGet
       /\ (\A o \in DOMAIN ops : ~GetCompletes(o)) => stats' = stats]_vars

\* C23 amended: each completed get adds one to exactly one counter (hits if
\* the entry was found, misses otherwise), also with gets in flight together,
\* and stats reports total = hits + misses; the counters are otherwise only
\* ever reset to zero, by a clear_pattern whose glob matches the statistics
\* key or by the 24 h expiry, so hits + misses is the number of gets completed
\* since the last such reset.
C23_CountersSinceLastReset ==
    [][/\ OneCounterPerGet
       /\ ((\A o \in DOMAIN ops : ~GetCompletes(o)) /\ stats' # stats) =>
             /\ stats' = NoStats
             /\ \/ now' = now + StatsTtl
                \/ \E o \in DOMAIN ops :
                      /\ ops[o].pc = "idle" /\ ops'[o].pc = "done"
                      /\ ops'[o].op = "clear_pattern"
                      /\ matches(ops'[o].pattern, stats_key)]_vars

\* the gets of two callers on one key have both returned, one a hit and one
\* a miss, and each counter stands at one
C23_Witness ==
    /\ ops["c1"].pc = "done" /\ ops["c1"].op = "get" /\ ops["c1"].hit
    /\ ops["c2"].pc = "done" /\ ops["c2"].op = "get" /\ ~ops["c2"].hit
    /\ ops["c1"].key = ops["c2"].key
    /\ stats = [hits |-> 1, misses |-> 1]

\* the get_cache_instance calls, in flight or returned, that called initialize
Initializers ==
    {o \in DOMAIN ops : /\ ops[o].pc # "idle"
                        /\ ops[o].op = "get_cache_instance"
                        /\ ops[o].invoked}

\* C24: over any interleaving of get_cache_instance calls, initialize is
\* invoked by the first call only (never again once the global instance is
\* set, and never by two calls at once), the global instance is never
\* replaced, and every call that returns returns that instance.
C24_SingletonHandle ==
    [][/\ \A o \in DOMAIN ops :
             (/\ ops[o].pc = "idle" /\ ops'[o].pc # "idle"
              /\ ops'[o].op = "get_cache_instance" /\ ops'[o].invoked)
             => ~cache_instance
       /\ cache_instance => cache_instance'
       /\ Cardinality(Initializers') <= 1
       /\ \A o \in DOMAIN ops :
             (ops'[o].pc = "done" /\ ops'[o].op = "get_cache_instance" /\ ~ops'[o].raised)
             => cache_instance']_vars

\* the second call returns the instance while the first call's initialize is
\* still waiting for its ping
C24_Witness ==
    /\ ops["c1"].pc = "ping" /\ ops["c1"].op = "get_cache_instance"
    /\ ops["c2"].pc = "done" /\ ops["c2"].op = "get_cache_instance"
    /\ ~ops["c2"].invoked /\ ~ops["c2"].raised

\* C25: a request records one event on each identity key checked for it, in
\* its ordered checks; once its address check has run, nothing the request
\* does afterwards adds another event to a window, so one request never
\* counts twice on a key.
C25_OneEventPerRequest ==
    [][\A r \in Reqs :
          (/\ reqs[r].pc = "call_next" /\ reqs'[r].pc = "responded"
           /\ \E i \in 1..Len(reqs[r].log) :
                 reqs[r].log[i].op = "is_allowed" /\ reqs[r].log[i].check_type = "ip")
          => \A rk \in RedisKeys : zsets'[rk] \subseteq zsets[rk]]_vars

\* C26: when is_allowed rejects a call on a key with retry_after = r and no
\* call is made on the key for the next r seconds, the next call on the key
\* (same limit and window, healthy store) is allowed.
C26_RetryAfterHonest ==
    (/\ probe # NoEntry /\ probe.prev # NoEntry
     /\ ~probe.prev.result.allowed
     /\ probe.t >= probe.prev.t + probe.prev.result.retry_after
     /\ "error" \notin DOMAIN probe.result)
    => probe.result.allowed

\* C27: for every integer limit >= 0, limit = 0 included, the decision on a
\* count that exceeds floor(limit x burst_multiplier) is allowed = false.
C27_RejectsAboveThreshold ==
    (/\ probe # NoEntry /\ probe.limit >= 0
     /\ probe.count > FloorOf(probe.limit, probe.burst))
    => ~probe.result.allowed

\* C28: a key whitelisted in a set that carries no expiration (what
\* add_to_whitelist(key) with no ttl leaves) is, after every later step, an
\* add_to_whitelist for another key with or without ttl or the passing of
\* time, still whitelisted in a set that carries no expiration.
C28_WhitelistPermanence ==
    [][\A key \in WlKeys :
          (is_whitelisted(key) /\ wl_expiry = 0)
          => (is_whitelisted(key)' /\ wl_expiry' = 0)]_vars

\* C29: with rate_limit_enabled true and the store reachable, whatever
\* cache_enabled is, the limiter of a request that is past initialize holds
\* a backend handle and the decision of its address check comes from the
\* counted events, not from the except branch.
C29_IndependentOfCacheSwitch ==
    (backend = "up" /\ settings.rate_limit_enabled) =>
        \A r \in Arrived :
            /\ cache = "redis"
            /\ \A i \in 1..Len(reqs[r].log) :
                  (reqs[r].log[i].op = "is_allowed" /\ reqs[r].log[i].check_type = "ip")
                  => "error" \notin DOMAIN reqs[r].log[i].result

\* C30: a set without explicit ttl (caching enabled, healthy backend, base
\* TTL of at least 1 second) gets a dynamic TTL of at least 1 second for every
\* category and payload size, the entry is stored and set returns true.
C30_DynamicTtlAtLeastOne ==
    \A o \in SentSets :
        (ops[o].ttl_arg = <<>> /\ settings.cache_ttl >= 1) =>
            /\ ops[o].ttl >= 1
            /\ ops[o].result = TRUE
            /\ kv[ops[o].key].present
====
